---- MODULE Spec2Model ----
(***************************************************************************)
(* Model of src/app.py (MSH-contadorDinamicas): the transcript parser      *)
(* (parse_input), the podium decoder (parse_podium_positions), the         *)
(* grapheme splitter (split_graphemes), the round scorer (score_round)     *)
(* and the aggregator (compute_scores).                                    *)
(*                                                                         *)
(* A Python str is a sequence of one-character strings.  The characters    *)
(* of the model are                                                        *)
(*   "X" "Y" "Z"   three emoji (Extended_Pictographic, one code point)     *)
(*   "j"           U+200D ZERO WIDTH JOINER                                *)
(*   " "           U+0020 SPACE                                            *)
(*   "\t"          U+0009 TAB (whitespace other than U+0020; a Control     *)
(*                 character for grapheme segmentation)                    *)
(*   "(" ")" "." "0" "1" "2"                                               *)
(* None of them has a canonical decomposition or takes part in a canonical *)
(* composition, so NFC leaves every string over them unchanged.            *)
(***************************************************************************)
EXTENDS Integers, Sequences, FiniteSets, TLC

VARIABLES
    HAS_REGEX,      \* whether `import regex` succeeded (app.py:7-12)
    text,           \* the pasted input, as text.splitlines() gives it
    pc,             \* position in the "Calcular" handler
    title_raw,      \* parse_input: title_raw
    j,              \* parse_input: index of the next line of the loop (1-based)
    current_round,  \* parse_input: current_round (None is NoRound)
    rounds,         \* parse_input: rounds, a dict in insertion order
    queue,          \* compute_scores: the round numbers still to score
    totals,         \* compute_scores: totals (a defaultdict(int))
    errors,         \* compute_scores: errors
    ranking         \* compute_scores: ranking

vars == <<HAS_REGEX, text, pc, title_raw, j, current_round, rounds, queue,
          totals, errors, ranking>>

----------------------------------------------------------------------------
(* Characters *)

SP  == " "
TAB == "\t"
ZWJ == "j"
LP  == "("
RP  == ")"
DOT == "."

Emoji  == {"X", "Y", "Z"}
Digits == {"0", "1", "2"}

\* ord(ch): X is U+1F49A, Y is U+1F5A4, Z is U+1F90D
Code(ch) ==
    CASE ch = TAB -> 9
      [] ch = SP  -> 32
      [] ch = LP  -> 40
      [] ch = RP  -> 41
      [] ch = DOT -> 46
      [] ch = "0" -> 48
      [] ch = "1" -> 49
      [] ch = "2" -> 50
      [] ch = ZWJ -> 8205
      [] ch = "X" -> 128154
      [] ch = "Y" -> 128420
      [] ch = "Z" -> 129293

\* str.isspace(): what str.strip() removes and what \s matches
IsSpace(ch) == ch \in {SP, TAB}

DigitVal(ch) == CASE ch = "0" -> 0 [] ch = "1" -> 1 [] ch = "2" -> 2

SetMin(S) == CHOOSE x \in S : \A y \in S : x <= y
SetMax(S) == CHOOSE x \in S : \A y \in S : y <= x

----------------------------------------------------------------------------
(* Helpers (texto / emojis) *)

\* unicodedata.normalize("NFC", s), on the characters of the model
NFC(s) == s

\* str.strip()
Strip(s) ==
    LET keep == {i \in 1..Len(s) : ~IsSpace(s[i])}
    IN  IF keep = {} THEN <<>> ELSE SubSeq(s, SetMin(keep), SetMax(keep))

\* s.replace(c, "") for every c of cs
Remove(s, cs) == SelectSeq(s, LAMBDA c : c \notin cs)

normalize_line(s) == Strip(NFC(s))

\* Index of the last character of the extended grapheme cluster (regex \X)
\* of s that starts at index i and so far reaches index k.  UAX #29: no
\* break before a ZWJ (GB9), none between emoji-ZWJ and an emoji (GB11),
\* always a break around a Control character (GB4, GB5).
RECURSIVE ClusterEnd(_, _, _)
ClusterEnd(s, i, k) ==
    IF s[i] = TAB \/ k = Len(s) THEN k
    ELSE IF s[k + 1] = ZWJ THEN ClusterEnd(s, i, k + 1)
    ELSE IF s[k + 1] \in Emoji /\ s[k] = ZWJ /\ k - 1 >= i /\ s[k - 1] \in Emoji
         THEN ClusterEnd(s, i, k + 1)
    ELSE k

\* re.match(r"\X", s[i:]).group(0)
ClusterAt(s, i) == SubSeq(s, i, ClusterEnd(s, i, i))

\* re.findall(r"\X", s[i:])
RECURSIVE FindAllX(_, _)
FindAllX(s, i) ==
    IF i > Len(s) THEN <<>>
    ELSE LET g == ClusterAt(s, i) IN <<g>> \o FindAllX(s, i + Len(g))

split_graphemes(s0, hasRegex) ==
    LET s == Remove(normalize_line(s0), {SP})
    IN  IF s = <<>> THEN <<>>
        ELSE IF hasRegex
             THEN SelectSeq(FindAllX(s, 1), LAMBDA g : g # <<>> /\ g # <<ZWJ>>)
        ELSE [i \in 1..Len(s) |-> <<s[i]>>]

\* s.find(")", i): the least index >= i holding ")", 0 when there is none
FindRP(s, i) ==
    LET at == {k \in i..Len(s) : s[k] = RP}
    IN  IF at = {} THEN 0 ELSE SetMin(at)

\* parse_podium_positions with a tie group of the wrong size dropped instead
\* of appended (mutant of PodiumStep)
PodiumStepDropsBadGroup(s, i, positions, errs, hasRegex) ==
    LET ch == s[i] IN
    IF ch = LP /\ FindRP(s, i + 1) # 0 THEN
        LET jj     == FindRP(s, i + 1)
            inside == SubSeq(s, i + 1, jj - 1)
            emos   == SelectSeq(split_graphemes(inside, hasRegex),
                                LAMBDA e : e \notin {<<LP>>, <<RP>>})
        IN  [i |-> jj + 1,
             positions |-> IF Len(emos) = 2 THEN Append(positions, emos)
                           ELSE positions,
             errs |-> IF Len(emos) # 2
                      THEN Append(errs, [kind |-> "group", found |-> Len(emos),
                                         text |-> inside, at |-> i])
                      ELSE errs]
    ELSE IF ch \in {LP, RP} THEN
        [i |-> i + 1, positions |-> positions,
         errs |-> Append(errs, [kind |-> IF ch = LP THEN "unclosed" ELSE "stray",
                                found |-> 0, text |-> <<>>, at |-> i])]
    ELSE LET g == IF hasRegex THEN ClusterAt(s, i) ELSE <<ch>>
         IN  [i |-> i + Len(g), positions |-> Append(positions, <<g>>),
              errs |-> errs]

\* One iteration of the loop of parse_podium_positions at index i.  An error
\* is [kind, found, text, at]: the message's kind, the count and the
\* substring it quotes, and (not part of the message) the index the decoder
\* was at.
PodiumStep(s, i, positions, errs, hasRegex) ==
    LET ch == s[i] IN
    IF ch = LP THEN
        LET jj == FindRP(s, i + 1) IN
        IF jj = 0 THEN
            [i |-> i + 1, positions |-> positions,
             errs |-> Append(errs, [kind |-> "unclosed", found |-> 0,
                                    text |-> <<>>, at |-> i])]
        ELSE
            LET inside == SubSeq(s, i + 1, jj - 1)
                emos   == SelectSeq(split_graphemes(inside, hasRegex),
                                    LAMBDA e : e \notin {<<LP>>, <<RP>>})
            IN  [i |-> jj + 1,
                 positions |-> IF emos # <<>> THEN Append(positions, emos)
                               ELSE positions,
                 errs |-> IF Len(emos) # 2
                          THEN Append(errs, [kind |-> "group",
                                             found |-> Len(emos),
                                             text |-> inside, at |-> i])
                          ELSE errs]
    ELSE IF ch = RP THEN
        [i |-> i + 1, positions |-> positions,
         errs |-> Append(errs, [kind |-> "stray", found |-> 0,
                                text |-> <<>>, at |-> i])]
    ELSE IF hasRegex THEN
        LET g == ClusterAt(s, i)
        IN  [i |-> i + Len(g),
             positions |-> IF g \notin {<<LP>>, <<RP>>}
                           THEN Append(positions, <<g>>) ELSE positions,
             errs |-> errs]
    ELSE
        [i |-> i + 1, positions |-> Append(positions, <<<<ch>>>>),
         errs |-> errs]

RECURSIVE PodiumLoop(_, _, _, _, _)
PodiumLoop(s, i, positions, errs, hasRegex) ==
    IF i > Len(s) THEN [positions |-> positions, errors |-> errs]
    ELSE LET n == PodiumStep(s, i, positions, errs, hasRegex)
         IN  PodiumLoop(s, n.i, n.positions, n.errs, hasRegex)

parse_podium_positions(podium_raw, hasRegex) ==
    PodiumLoop(Remove(normalize_line(podium_raw), {SP}), 1, <<>>, <<>>,
               hasRegex)

emojis_in_nonpodium_line(line, hasRegex) ==
    split_graphemes(Remove(normalize_line(line), {SP, LP, RP}), hasRegex)

----------------------------------------------------------------------------
(* Scoring *)

FIRST  == 100
SECOND == 90
THIRD  == 80
EXTRA  == 60

PodiumPts == <<FIRST, SECOND, THIRD>>

NoTotals == [e \in {} |-> 0]

\* totals[emo] = pts: the entry overwritten instead of added to (mutant of
\* AddPts)
AddPtsOverwrites(tot, emo, pts) ==
    IF emo \in DOMAIN tot THEN [tot EXCEPT ![emo] = pts]
    ELSE tot @@ (emo :> pts)

\* totals[emo] += pts on a defaultdict(int)
AddPts(tot, emo, pts) ==
    IF emo \in DOMAIN tot THEN [tot EXCEPT ![emo] = @ + pts]
    ELSE tot @@ (emo :> pts)

\* for emo in emos: totals[emo] += pts
RECURSIVE AddAll(_, _, _)
AddAll(tot, emos, pts) ==
    IF emos = <<>> THEN tot
    ELSE AddAll(AddPts(tot, Head(emos), pts), Tail(emos), pts)

\* A position's points divided among its tied entities (mutant of AddPodium)
RECURSIVE AddPodiumSplitsTie(_, _, _)
AddPodiumSplitsTie(tot, positions, k) ==
    IF k > 3 THEN tot
    ELSE AddPodiumSplitsTie(
             AddAll(tot, positions[k],
                    <<100, 90, 80>>[k] \div Len(positions[k])),
             positions, k + 1)

\* for pos_idx, pts in enumerate([100, 90, 80]): ... (from position k on)
RECURSIVE AddPodium(_, _, _)
AddPodium(tot, positions, k) ==
    IF k > Len(PodiumPts) THEN tot
    ELSE AddPodium(AddAll(tot, positions[k], PodiumPts[k]), positions, k + 1)

\* for extra_line in lines[1:]: ... (from line k on)
RECURSIVE AddExtras(_, _, _, _)
AddExtras(tot, lines, k, hasRegex) ==
    IF k > Len(lines) THEN tot
    ELSE AddExtras(AddAll(tot, emojis_in_nonpodium_line(lines[k], hasRegex),
                          EXTRA),
                   lines, k + 1, hasRegex)

\* f"Ronda {rn}: {pe}"
RoundError(rn, pe) ==
    [rn |-> rn, kind |-> pe.kind, found |-> pe.found, text |-> pe.text]

PrefixAll(rn, pes) == [k \in 1..Len(pes) |-> RoundError(rn, pes[k])]

\* the podium-count message of score_round
CountError(rn, positions, podium_raw) ==
    [rn |-> rn, kind |-> "count", found |-> Len(positions),
     text |-> normalize_line(podium_raw)]

NoLinesError(rn) == [rn |-> rn, kind |-> "nolines", found |-> 0, text |-> <<>>]

\* The podium-count error reported before the decoder's errors (mutant of
\* PodiumErrors)
PodiumErrorsCountFirst(rn, dec, podium_raw) ==
    (IF Len(dec.positions) # 3
     THEN <<CountError(rn, dec.positions, podium_raw)>> ELSE <<>>)
        \o PrefixAll(rn, dec.errors)

\* The errors score_round appends after decoding the podium
PodiumErrors(rn, dec, podium_raw) ==
    PrefixAll(rn, dec.errors)
        \o (IF Len(dec.positions) # 3
            THEN <<CountError(rn, dec.positions, podium_raw)>> ELSE <<>>)

\* Bonus lines scored only when the podium is well formed (mutant of
\* ExtrasScored)
ExtrasScoredIfPodiumOk(tot, lines, hasRegex) ==
    IF Len(parse_podium_positions(lines[1], hasRegex).positions) # 3 THEN tot
    ELSE AddExtras(tot, lines, 2, hasRegex)

\* The bonus lines score_round scores
ExtrasScored(tot, lines, hasRegex) == AddExtras(tot, lines, 2, hasRegex)

score_round(lines, tot, errs, rn, hasRegex) ==
    IF lines = <<>> THEN
        [totals |-> tot, errors |-> Append(errs, NoLinesError(rn))]
    ELSE
        LET dec == parse_podium_positions(lines[1], hasRegex)
            t1  == IF Len(dec.positions) # 3 THEN tot
                   ELSE AddPodium(tot, dec.positions, 1)
        IN  [totals |-> ExtrasScored(t1, lines, hasRegex),
             errors |-> errs \o PodiumErrors(rn, dec, lines[1])]

----------------------------------------------------------------------------
(* rounds: dict[int, list[str]], kept as its entries in insertion order *)

Keys(rs) == [k \in 1..Len(rs) |-> rs[k].rn]

KeySet(rs) == {rs[k].rn : k \in 1..Len(rs)}

\* rounds[rn]
LinesOf(rs, rn) == LET k == CHOOSE k \in 1..Len(rs) : rs[k].rn = rn IN rs[k].lst

\* rounds.setdefault(rn, []); rounds[rn].append(line)
AppendLine(rs, rn, line) ==
    IF rn \in KeySet(rs)
    THEN [k \in 1..Len(rs) |->
             IF rs[k].rn = rn THEN [rs[k] EXCEPT !.lst = Append(@, line)]
             ELSE rs[k]]
    ELSE Append(rs, [rn |-> rn, lst |-> <<line>>])

\* sorted(S) for a set of integers
RECURSIVE Sorted(_)
Sorted(S) ==
    IF S = {} THEN <<>>
    ELSE LET m == SetMin(S) IN <<m>> \o Sorted(S \ {m})

\* for rn in rounds.keys(): insertion order, not sorted (mutant of RoundOrder)
RoundOrderAsInserted(rs) == Keys(rs)

\* The order in which compute_scores visits the rounds
RoundOrder(rs) == Sorted(KeySet(rs))

----------------------------------------------------------------------------
(* parse_input *)

NoRound == -1

\* The first index >= 1 of a line that is not blank, Len + 1 if none
TitleIndex(cleaned) ==
    LET nb == {i \in 1..Len(cleaned) : normalize_line(cleaned[i]) # <<>>}
    IN  IF nb = {} THEN Len(cleaned) + 1 ELSE SetMin(nb)

\* Number of leading digits of line
RECURSIVE DigitRun(_, _)
DigitRun(line, k) ==
    IF k < Len(line) /\ line[k + 1] \in Digits THEN DigitRun(line, k + 1)
    ELSE k

\* int(digits)
RECURSIVE IntOf(_)
IntOf(ds) ==
    IF ds = <<>> THEN 0
    ELSE 10 * IntOf(SubSeq(ds, 1, Len(ds) - 1)) + DigitVal(ds[Len(ds)])

\* ROUND_RE.match(line) for a stripped line: whether it matches, int(group 1)
\* and group(2).strip()
RoundMatch(line) ==
    LET n == DigitRun(line, 0) IN
    IF n >= 1 /\ n < Len(line) /\ line[n + 1] = DOT
    THEN [ok |-> TRUE, rn |-> IntOf(SubSeq(line, 1, n)),
          rest |-> Strip(SubSeq(line, n + 2, Len(line)))]
    ELSE [ok |-> FALSE, rn |-> NoRound, rest |-> <<>>]

\* A blank line ends the current round (mutant of ParseStep)
ParseStepBlankEndsRound(rs, cur, raw) ==
    LET line == normalize_line(raw)
        m    == RoundMatch(line)
    IN  IF line = <<>> THEN [rounds |-> rs, cur |-> NoRound]
        ELSE IF m.ok
             THEN [rounds |-> AppendLine(rs, m.rn, m.rest), cur |-> m.rn]
        ELSE IF cur = NoRound THEN [rounds |-> rs, cur |-> cur]
        ELSE [rounds |-> AppendLine(rs, cur, line), cur |-> cur]

\* One iteration of `for j in range(i, len(cleaned))`
ParseStep(rs, cur, raw) ==
    LET line == normalize_line(raw)
        m    == RoundMatch(line)
    IN  IF line = <<>> THEN [rounds |-> rs, cur |-> cur]
        ELSE IF m.ok
             THEN [rounds |-> AppendLine(rs, m.rn, m.rest), cur |-> m.rn]
        ELSE IF cur = NoRound THEN [rounds |-> rs, cur |-> cur]
        ELSE [rounds |-> AppendLine(rs, cur, line), cur |-> cur]

\* if lst and normalize_line(lst[0]) == "": lst.pop(0)
PopEmptyPodium(lst) ==
    IF lst # <<>> /\ normalize_line(lst[1]) = <<>> THEN Tail(lst) ELSE lst

PostProcessed(rs) ==
    [k \in 1..Len(rs) |-> [rs[k] EXCEPT !.lst = PopEmptyPodium(@)]]

RECURSIVE ParseLoop(_, _, _, _)
ParseLoop(cleaned, k, rs, cur) ==
    IF k > Len(cleaned) THEN rs
    ELSE LET n == ParseStep(rs, cur, cleaned[k])
         IN  ParseLoop(cleaned, k + 1, n.rounds, n.cur)

\* parse_input(text)[1]
parse_input(lines) ==
    LET cleaned == [k \in 1..Len(lines) |-> NFC(lines[k])]
    IN  PostProcessed(ParseLoop(cleaned, TitleIndex(cleaned) + 1, <<>>, NoRound))

----------------------------------------------------------------------------
(* compute_scores *)

\* a < b for two str, by code points
StrLess(a, b) ==
    \E k \in 1..(Len(a) + 1) :
        /\ \A i \in 1..(k - 1) : i <= Len(b) /\ a[i] = b[i]
        /\ k <= Len(b)
        /\ (k > Len(a) \/ Code(a[k]) < Code(b[k]))

\* Equal totals ordered by descending identifier (mutant of KeyLess)
KeyLessTiesReversed(x, y) ==
    -x[2] < -y[2] \/ (x[2] = y[2] /\ StrLess(y[1], x[1]))

\* key=lambda x: (-x[1], x[0]) on items <<emo, pts>>: key(x) < key(y)
KeyLess(x, y) == -x[2] < -y[2] \/ (x[2] = y[2] /\ StrLess(x[1], y[1]))

Items(tot) == {<<e, tot[e]>> : e \in DOMAIN tot}

\* sorted(items, key=...)
RECURSIVE SortedItems(_)
SortedItems(S) ==
    IF S = {} THEN <<>>
    ELSE LET m == CHOOSE x \in S : \A y \in S \ {x} : KeyLess(x, y)
         IN  <<m>> \o SortedItems(S \ {m})

\* compute_scores, from the round at the head of q on
RECURSIVE ScoreFrom(_, _, _, _, _)
ScoreFrom(rs, q, tot, errs, hasRegex) ==
    IF q = <<>> THEN [totals |-> tot, errors |-> errs]
    ELSE LET r == score_round(LinesOf(rs, Head(q)), tot, errs, Head(q), hasRegex)
         IN  ScoreFrom(rs, Tail(q), r.totals, r.errors, hasRegex)

compute_scores(rs, hasRegex) ==
    LET r == ScoreFrom(rs, RoundOrder(rs), NoTotals, <<>>, hasRegex)
    IN  [totals |-> r.totals, ranking |-> SortedItems(Items(r.totals)),
         errors |-> r.errors]

----------------------------------------------------------------------------
(* The "Calcular" handler, step by step *)

\* parse_input, lines 52-65: the title and the start of the loop
ReadTitle ==
    /\ pc = "title"
    /\ LET cleaned == [k \in 1..Len(text) |-> NFC(text[k])]
           i       == TitleIndex(cleaned)
       IN  /\ title_raw' = IF i <= Len(cleaned) THEN normalize_line(cleaned[i])
                           ELSE <<>>
           /\ j' = i + 1
    /\ rounds' = <<>>
    /\ current_round' = NoRound
    /\ pc' = "lines"
    /\ UNCHANGED <<HAS_REGEX, text, queue, totals, errors, ranking>>

\* parse_input, lines 67-83: one line of the loop
ParseLine ==
    /\ pc = "lines"
    /\ j <= Len(text)
    /\ LET n == ParseStep(rounds, current_round, NFC(text[j]))
       IN  /\ rounds' = n.rounds
           /\ current_round' = n.cur
    /\ j' = j + 1
    /\ UNCHANGED <<HAS_REGEX, text, pc, title_raw, queue, totals, errors, ranking>>

\* parse_input, lines 85-90: the empty podium of a bare marker is dropped
PostProcess ==
    /\ pc = "lines"
    /\ j > Len(text)
    /\ rounds' = PostProcessed(rounds)
    /\ pc' = "compute"
    /\ UNCHANGED <<HAS_REGEX, text, title_raw, j, current_round, queue, totals,
                   errors, ranking>>

\* compute_scores, lines 240-243
ComputeStart ==
    /\ pc = "compute"
    /\ totals' = NoTotals
    /\ errors' = <<>>
    /\ queue' = RoundOrder(rounds)
    /\ pc' = "score"
    /\ UNCHANGED <<HAS_REGEX, text, title_raw, j, current_round, rounds, ranking>>

\* compute_scores, line 244: score_round of the next round
ScoreRound ==
    /\ pc = "score"
    /\ queue # <<>>
    /\ LET rn == Head(queue)
           r  == score_round(LinesOf(rounds, rn), totals, errors, rn, HAS_REGEX)
       IN  /\ totals' = r.totals
           /\ errors' = r.errors
    /\ queue' = Tail(queue)
    /\ UNCHANGED <<HAS_REGEX, text, pc, title_raw, j, current_round, rounds,
                   ranking>>

\* compute_scores, lines 246-247
Rank ==
    /\ pc = "score"
    /\ queue = <<>>
    /\ ranking' = SortedItems(Items(totals))
    /\ pc' = "done"
    /\ UNCHANGED <<HAS_REGEX, text, title_raw, j, current_round, rounds, queue,
                   totals, errors>>

----------------------------------------------------------------------------
(* Inputs *)

\* Largest number of content lines, over all rounds, given to compute_scores
MaxTotalLines == 3

\* Largest length of a podium line of SpecPodium
MaxPodiumLen == 5

\* Largest number of lines of a transcript of SpecParse
MaxLines == 4

RoundNums == {1, 2}

\* Content lines: a plain podium; a podium with a tie; an unclosed
\* parenthesis; a repeated emoji, a space and an interior tab; a
\* stray parenthesis, a joined emoji and an unclosed parenthesis; the empty
\* line.
Contents ==
    { <<"X", "Y", "Z">>,
      <<"X", LP, "Y", "Z", RP, "Z">>,
      <<"X", SP, LP, "Y">>,
      <<"X", SP, "X", TAB, "Y">>,
      <<RP, "X", ZWJ, "Y", LP>>,
      <<>> }

PodiumChars == {"X", "Y", LP, RP, SP, TAB, ZWJ}

\* Lines of a transcript: a blank line; a plain line; a bare marker; a marker
\* with its podium; a marker of round 2 with a malformed podium; a marker of
\* round 10 after whitespace, with a malformed podium; a bare marker of round 2.
ParseLines ==
    { <<SP>>,
      <<"X", "Y">>,
      <<"1", DOT>>,
      <<"1", DOT, SP, "X", "Y", "Z">>,
      <<"2", DOT, "X", LP>>,
      <<TAB, "1", "0", DOT, RP>>,
      <<"2", DOT>> }

SeqsUpTo(S, n) == UNION {[1..k -> S] : k \in 0..n}

\* Every dict of at most two rounds holding at most n lines in all
RoundsUpTo(n) ==
    {<<>>}
    \cup {<<[rn |-> a, lst |-> l]>> : a \in RoundNums, l \in SeqsUpTo(Contents, n)}
    \cup UNION {
           UNION { {<<[rn |-> ab[1], lst |-> l1], [rn |-> ab[2], lst |-> l2]>> :
                      l1 \in [1..n1 -> Contents],
                      l2 \in SeqsUpTo(Contents, n - n1)} :
                   n1 \in 0..n} :
           ab \in {x \in RoundNums \X RoundNums : x[1] # x[2]}}

\* compute_scores is about to run on `rounds`
AtCompute(rs) ==
    /\ HAS_REGEX \in BOOLEAN
    /\ text = <<>>
    /\ pc = "compute"
    /\ title_raw = <<>>
    /\ j = 1
    /\ current_round = NoRound
    /\ rounds = rs
    /\ queue = <<>>
    /\ totals = NoTotals
    /\ errors = <<>>
    /\ ranking = <<>>

\* compute_scores on any dict of rounds
Init == \E rs \in RoundsUpTo(MaxTotalLines) : AtCompute(rs)

\* compute_scores on one round of one line, any string of PodiumChars
InitPodium ==
    \E p \in SeqsUpTo(PodiumChars, MaxPodiumLen) :
        AtCompute(<<[rn |-> 1, lst |-> <<p>>]>>)

\* "Calcular" pressed on any transcript of ParseLines
InitParse ==
    /\ HAS_REGEX \in BOOLEAN
    /\ text \in SeqsUpTo(ParseLines, MaxLines)
    /\ pc = "title"
    /\ title_raw = <<>>
    /\ j = 1
    /\ current_round = NoRound
    /\ rounds = <<>>
    /\ queue = <<>>
    /\ totals = NoTotals
    /\ errors = <<>>
    /\ ranking = <<>>

Next == ComputeStart \/ ScoreRound \/ Rank

NextParse ==
    ReadTitle \/ ParseLine \/ PostProcess \/ ComputeStart \/ ScoreRound \/ Rank

Spec == Init /\ [][Next]_vars

SpecPodium == InitPodium /\ [][Next]_vars

SpecParse == InitParse /\ [][NextParse]_vars

----------------------------------------------------------------------------
(* Definitions the properties share *)

\* Number of occurrences of e in the sequence sq
Occ(e, sq) == Cardinality({k \in 1..Len(sq) : sq[k] = e})

\* totals.get(e, 0)
Tot(tot, e) == IF e \in DOMAIN tot THEN tot[e] ELSE 0

Decoded(line) == parse_podium_positions(line, HAS_REGEX)

\* Occurrences of e in the bonus lines (all lines but the first) of a round
RECURSIVE BonusOcc(_, _, _)
BonusOcc(e, lines, k) ==
    IF k > Len(lines) THEN 0
    ELSE Occ(e, emojis_in_nonpodium_line(lines[k], HAS_REGEX))
             + BonusOcc(e, lines, k + 1)

\* The podium points e earns from three positions
PodiumShare(e, pos) ==
    100 * Occ(e, pos[1]) + 90 * Occ(e, pos[2]) + 80 * Occ(e, pos[3])

\* What one round contributes to e, computed on its own
Contribution(e, lines) ==
    IF lines = <<>> THEN 0
    ELSE (IF Len(Decoded(lines[1]).positions) = 3
          THEN PodiumShare(e, Decoded(lines[1]).positions) ELSE 0)
             + 60 * BonusOcc(e, lines, 2)

RECURSIVE SumContributions(_, _, _)
SumContributions(e, rs, k) ==
    IF k > Len(rs) THEN 0
    ELSE Contribution(e, rs[k].lst) + SumContributions(e, rs, k + 1)

\* Every identifier met in a sequence of groups of identifiers
Members(groups) == UNION {{g[k] : k \in 1..Len(g)} : g \in {groups[i] : i \in 1..Len(groups)}}

\* Every identifier a round's lines can credit
RoundEntities(lines) ==
    IF lines = <<>> THEN {}
    ELSE Members(Decoded(lines[1]).positions)
         \cup UNION {Members(<<emojis_in_nonpodium_line(lines[k], HAS_REGEX)>>) :
                       k \in 2..Len(lines)}

AllEntities == DOMAIN totals \cup UNION {RoundEntities(rounds[k].lst) : k \in 1..Len(rounds)}

\* The round being scored by the next ScoreRound step
Scoring == pc = "score" /\ queue # <<>>

CurLines == LinesOf(rounds, Head(queue))

\* The errors of round rn, in the order of the list
ErrorsOf(rn) == SelectSeq(errors, LAMBDA x : x.rn = rn)

\* rounds without its k-th entry
Without(rs, k) == SubSeq(rs, 1, k - 1) \o SubSeq(rs, k + 1, Len(rs))

Malformed(lines) == lines # <<>> /\ Len(Decoded(lines[1]).positions) # 3

----------------------------------------------------------------------------
(* C1 *)

\* C1: when the podium of the round being scored decodes to exactly 3
\* positions, score_round adds to each identifier 100 for each occurrence in
\* position 1, 90 for each in position 2 and 80 for each in position 3 (on top
\* of the bonus lines' 60 per occurrence): every member of a tie gets the full
\* value and an identifier in two positions gets both.
C1_PodiumPoints ==
    [][ (Scoring /\ CurLines # <<>>
             /\ Len(Decoded(CurLines[1]).positions) = 3)
        => LET pos == Decoded(CurLines[1]).positions IN
           /\ Members(pos) \subseteq DOMAIN totals'
           /\ \A e \in DOMAIN totals' :
                 Tot(totals', e) - Tot(totals, e) - 60 * BonusOcc(e, CurLines, 2)
                     = PodiumShare(e, pos) ]_vars

\* The podium X(YZ)Z alone has given X 100, Y 90 and Z 170
C1_Witness ==
    /\ pc = "done"
    /\ rounds = <<[rn |-> 1, lst |-> <<<<"X", LP, "Y", "Z", RP, "Z">>>>]>>
    /\ totals = (<<"X">> :> 100) @@ (<<"Y">> :> 90) @@ (<<"Z">> :> 170)

----------------------------------------------------------------------------
(* C2 *)

\* C2: once compute_scores is done, every round whose podium decodes to K # 3
\* positions has exactly one podium-count error, which names K; the totals are
\* those of the other rounds alone plus 60 for each occurrence in the round's
\* bonus lines; and the other rounds' errors are those they have without it.
C2_MalformedPodium ==
    pc = "done" =>
        \A k \in 1..Len(rounds) :
            Malformed(rounds[k].lst) =>
                LET lines == rounds[k].lst
                    rn    == rounds[k].rn
                    rest  == compute_scores(Without(rounds, k), HAS_REGEX)
                    cnt   == {i \in 1..Len(errors) :
                                errors[i].rn = rn /\ errors[i].kind = "count"}
                IN  /\ Cardinality(cnt) = 1
                    /\ \A i \in cnt :
                          errors[i].found = Len(Decoded(lines[1]).positions)
                    /\ \A e \in AllEntities \cup DOMAIN rest.totals :
                          Tot(totals, e)
                              = Tot(rest.totals, e) + 60 * BonusOcc(e, lines, 2)
                    /\ SelectSeq(errors, LAMBDA x : x.rn # rn) = rest.errors

\* Round 1 has a two-position podium and a bonus line, round 2 a good podium:
\* X has 120 + 100, Y 60 + 90, Z 80, and the bonus line's tab 60
C2_Witness ==
    /\ pc = "done"
    /\ rounds = <<[rn |-> 1, lst |-> <<<<"X", SP, LP, "Y">>,
                                        <<"X", SP, "X", TAB, "Y">>>>],
                  [rn |-> 2, lst |-> <<<<"X", "Y", "Z">>>>]>>
    /\ totals = (<<"X">> :> 220) @@ (<<"Y">> :> 150) @@ (<<"Z">> :> 80)
                   @@ (<<TAB>> :> 60)
    /\ Len(errors) = 2

----------------------------------------------------------------------------
(* C3 *)

\* The podium line, spaces and outer whitespace removed, is a(b)c for three
\* emoji a, b, c
ShortTie(line) ==
    LET s == Remove(normalize_line(line), {SP})
    IN  /\ Len(s) = 5
        /\ s[2] = LP /\ s[4] = RP
        /\ {s[1], s[3], s[5]} \subseteq Emoji

OneRound == Len(rounds) = 1 /\ Len(rounds[1].lst) = 1

\* C3 as stated: a podium X(Y)Z gives a tie-group-size error that found 1,
\* keeps Y as a position, and gives a podium-count error, so that the round
\* earns no podium points.
C3_AsStated ==
    (pc = "done" /\ OneRound /\ ShortTie(rounds[1].lst[1])) =>
        LET s   == Remove(normalize_line(rounds[1].lst[1]), {SP})
            pos == Decoded(rounds[1].lst[1]).positions
        IN  /\ \E i \in 1..Len(errors) :
                  errors[i].kind = "group" /\ errors[i].found = 1
            /\ \E k \in 1..Len(pos) : pos[k] = <<<<s[3]>>>>
            /\ \E i \in 1..Len(errors) : errors[i].kind = "count"
            /\ totals = NoTotals

\* C3 as amended: a podium X(Y)Z gives exactly one error, the tie-group-size
\* error that found 1 in "(Y)"; Y is kept as a position, the positions are
\* the three [X], [Y], [Z], there is no podium-count error, and the round
\* earns X 100, Y 90 and Z 80.
C3_ShortTieScores ==
    (pc = "done" /\ OneRound /\ ShortTie(rounds[1].lst[1])) =>
        LET s == Remove(normalize_line(rounds[1].lst[1]), {SP}) IN
        /\ errors = <<[rn |-> rounds[1].rn, kind |-> "group", found |-> 1,
                       text |-> <<s[3]>>]>>
        /\ Decoded(rounds[1].lst[1]).positions
               = <<<<<<s[1]>>>>, <<<<s[3]>>>>, <<<<s[5]>>>>>>
        /\ \A e \in DOMAIN totals \cup {<<s[1]>>, <<s[3]>>, <<s[5]>>} :
              Tot(totals, e)
                  = 100 * Occ(e[1], <<s[1]>>) + 90 * Occ(e[1], <<s[3]>>)
                        + 80 * Occ(e[1], <<s[5]>>)

\* The podium X(Y)X has been scored: X has 180 and Y 90
C3_Witness ==
    /\ pc = "done"
    /\ rounds = <<[rn |-> 1, lst |-> <<<<"X", LP, "Y", RP, "X">>>>]>>
    /\ totals = (<<"X">> :> 180) @@ (<<"Y">> :> 90)
    /\ Len(errors) = 1

----------------------------------------------------------------------------
(* C4 *)

\* Whether a line of the transcript is a round marker
IsMarker(raw) == normalize_line(raw) # <<>> /\ RoundMatch(normalize_line(raw)).ok

MarkerNum(raw) == RoundMatch(normalize_line(raw)).rn

RECURSIVE Concat(_)
Concat(ss) == IF ss = <<>> THEN <<>> ELSE Head(ss) \o Concat(Tail(ss))

\* The indices of M in ascending order of <<round number, index>>
RECURSIVE BlockOrder(_, _)
BlockOrder(body, M) ==
    IF M = {} THEN <<>>
    ELSE LET m == CHOOSE x \in M : \A y \in M \ {x} :
                      \/ MarkerNum(body[x]) < MarkerNum(body[y])
                      \/ MarkerNum(body[x]) = MarkerNum(body[y]) /\ x < y
         IN  <<m>> \o BlockOrder(body, M \ {m})

\* The transcript with its round blocks (a marker line and the lines up to
\* the next marker) in ascending order of round number, blocks of the same
\* number in their input order; the title and what precedes the first
\* marker stay where they are.
Rearranged(lines) ==
    LET ti    == TitleIndex(lines)
        body  == SubSeq(lines, ti + 1, Len(lines))
        M     == {k \in 1..Len(body) : IsMarker(body[k])}
        last(k) == IF \E m \in M : m > k
                   THEN SetMin({m \in M : m > k}) - 1 ELSE Len(body)
        order == BlockOrder(body, M)
    IN  IF M = {} THEN lines
        ELSE SubSeq(lines, 1, ti) \o SubSeq(body, 1, SetMin(M) - 1)
             \o Concat([k \in 1..Len(order) |->
                           SubSeq(body, order[k], last(order[k]))])

\* C4: the totals, the ranking and the error list of a transcript are those
\* of the transcript with its round blocks rearranged in ascending order of
\* round number.
C4_InputOrderIrrelevant ==
    pc = "done" =>
        LET c == compute_scores(parse_input(Rearranged(text)), HAS_REGEX)
        IN  totals = c.totals /\ ranking = c.ranking /\ errors = c.errors

\* A transcript with round 10 before round 2, both with errors, has been
\* scored
C4_Witness ==
    /\ pc = "done"
    /\ text = <<<<"X", "Y">>, <<TAB, "1", "0", DOT, RP>>, <<"2", DOT, "X", LP>>,
                <<"X", "Y">>>>
    /\ Rearranged(text) = <<<<"X", "Y">>, <<"2", DOT, "X", LP>>, <<"X", "Y">>,
                            <<TAB, "1", "0", DOT, RP>>>>
    /\ Keys(rounds) = <<10, 2>>
    /\ [k \in 1..Len(errors) |-> errors[k].rn] = <<2, 2, 10, 10>>

----------------------------------------------------------------------------
(* C5 *)

\* The code points of an identifier
Codes(e) == [k \in 1..Len(e) |-> Code(e[k])]

\* a < b for two sequences of integers, lexicographically
RECURSIVE LexLess(_, _)
LexLess(a, b) ==
    IF b = <<>> THEN FALSE
    ELSE IF a = <<>> THEN TRUE
    ELSE IF Head(a) # Head(b) THEN Head(a) < Head(b)
    ELSE LexLess(Tail(a), Tail(b))

\* C5: the ranking holds exactly one entry (identifier, total) for every
\* identifier of totals and nothing else, and of two adjacent entries the
\* first has the larger total, or the same total and the smaller identifier
\* in code point order.
C5_RankingSorted ==
    pc = "done" =>
        /\ Len(ranking) = Cardinality(DOMAIN totals)
        /\ {ranking[k][1] : k \in 1..Len(ranking)} = DOMAIN totals
        /\ \A k \in 1..Len(ranking) : ranking[k][2] = totals[ranking[k][1]]
        /\ \A k \in 1..(Len(ranking) - 1) :
              \/ ranking[k][2] > ranking[k + 1][2]
              \/ /\ ranking[k][2] = ranking[k + 1][2]
                 /\ LexLess(Codes(ranking[k][1]), Codes(ranking[k + 1][1]))

\* A ranking with a tie: X with 120, then tab and Y with 60 each
C5_Witness ==
    /\ pc = "done"
    /\ ranking = <<<<<<"X">>, 120>>, <<<<TAB>>, 60>>, <<<<"Y">>, 60>>>>

----------------------------------------------------------------------------
(* C6 *)

\* C6: once compute_scores is done, the round numbers of the error list never
\* decrease; the errors of a round with lines are the decoder's errors of its
\* podium, in the decoder's order, which is left to right, followed by the
\* podium-count error if the positions are not 3; a round without lines has
\* its one error; and every error carries the number of a round.
C6_ErrorOrder ==
    pc = "done" =>
        /\ \A i \in 1..Len(errors) : \A k \in i..Len(errors) :
              errors[i].rn <= errors[k].rn
        /\ \A i \in 1..Len(errors) : errors[i].rn \in KeySet(rounds)
        /\ \A r \in 1..Len(rounds) :
              LET es == ErrorsOf(rounds[r].rn)
                  ls == rounds[r].lst
              IN  IF ls = <<>>
                  THEN Len(es) = 1 /\ es[1].kind = "nolines"
                  ELSE LET dec == Decoded(ls[1])
                           n   == Len(dec.errors)
                       IN  /\ Len(es) = n + (IF Len(dec.positions) # 3 THEN 1 ELSE 0)
                           /\ \A k \in 1..n :
                                 /\ es[k].kind = dec.errors[k].kind
                                 /\ es[k].kind # "count"
                                 /\ es[k].found = dec.errors[k].found
                                 /\ es[k].text = dec.errors[k].text
                           /\ \A k \in 1..(n - 1) :
                                 dec.errors[k].at < dec.errors[k + 1].at
                           /\ Len(es) > n => es[n + 1].kind = "count"

\* Two rounds inserted as 2, 1: round 1 has a stray and an unclosed
\* parenthesis and a podium of one position, round 2 an unclosed parenthesis
\* and a podium of two
C6_Witness ==
    /\ pc = "done"
    /\ HAS_REGEX
    /\ Keys(rounds) = <<2, 1>>
    /\ [k \in 1..Len(errors) |-> <<errors[k].rn, errors[k].kind>>]
           = <<<<1, "stray">>, <<1, "unclosed">>, <<1, "count">>,
               <<2, "unclosed">>, <<2, "count">>>>

----------------------------------------------------------------------------
(* C7 *)

\* C7: once compute_scores is done, totals holds exactly the identifiers some
\* round credits, each with the sum over the rounds of the round's own
\* contribution; and no step lowers or removes an identifier's running total.
C7_TotalsAreSums ==
    /\ [](pc = "done" =>
            /\ \A e \in AllEntities :
                  Tot(totals, e) = SumContributions(e, rounds, 1)
            /\ \A e \in DOMAIN totals : totals[e] > 0)
    /\ [][\A e \in DOMAIN totals :
             e \in DOMAIN totals' /\ totals'[e] >= totals[e]]_vars

\* X is on two podiums and twice in one bonus line: 100 + 120 + 100
C7_Witness ==
    /\ pc = "done"
    /\ rounds = <<[rn |-> 2, lst |-> <<<<"X", LP, "Y", "Z", RP, "Z">>>>],
                  [rn |-> 1, lst |-> <<<<"X", "Y", "Z">>,
                                        <<"X", SP, "X", TAB, "Y">>>>]>>
    /\ totals = (<<"X">> :> 320) @@ (<<"Y">> :> 240) @@ (<<"Z">> :> 250)
                   @@ (<<TAB>> :> 60)

----------------------------------------------------------------------------
(* C8 *)

\* The line with every whitespace character removed
NoSpaces(line) == SelectSeq(line, LAMBDA c : ~IsSpace(c))

HasSpace(e) == \E k \in 1..Len(e) : IsSpace(e[k])

\* C8 as stated: no identifier of a podium position or of totals holds a
\* whitespace character, and the podium decodes to as many positions as it
\* does with its whitespace removed.
C8_AsStated ==
    (pc = "done" /\ OneRound) =>
        LET line == rounds[1].lst[1] IN
        /\ \A e \in Members(Decoded(line).positions) : ~HasSpace(e)
        /\ \A e \in DOMAIN totals : ~HasSpace(e)
        /\ Len(Decoded(line).positions) = Len(Decoded(NoSpaces(line)).positions)

----------------------------------------------------------------------------
(* C9 *)

\* C9 as stated: after parse_input, the first content line of every round
\* that has content lines is not empty.
C9_AsStated ==
    pc \in {"compute", "score", "done"} =>
        \A k \in 1..Len(rounds) :
            rounds[k].lst # <<>> => normalize_line(rounds[k].lst[1]) # <<>>

----------------------------------------------------------------------------
(* C10 *)

\* The lines of the transcript the loop has read: those after the title,
\* before line j
ReadSoFar == {k \in 1..(j - 1) : k > TitleIndex(text)}

\* The round number of the last marker line read, NoRound when none was
LastMarker ==
    LET M == {k \in ReadSoFar : IsMarker(text[k])}
    IN  IF M = {} THEN NoRound ELSE MarkerNum(text[SetMax(M)])

\* C10: while parse_input reads the lines after the title, current_round is
\* the round of the last marker line read; a blank line changes neither the
\* current round nor any round's lines; a non-blank line that is no marker
\* is appended to the current round's lines and leaves the other rounds'
\* alone, or, before the first marker, changes nothing.
C10_ContentLines ==
    /\ [](pc = "lines" => current_round = LastMarker)
    /\ [][ (pc = "lines" /\ j <= Len(text) /\ ~IsMarker(text[j]))
           => /\ current_round' = current_round
              /\ IF normalize_line(text[j]) = <<>> \/ current_round = NoRound
                 THEN rounds' = rounds
                 ELSE /\ Keys(rounds') = Keys(rounds)
                      /\ \A k \in 1..Len(rounds) :
                            rounds'[k].lst =
                                IF rounds[k].rn = current_round
                                THEN Append(rounds[k].lst, normalize_line(text[j]))
                                ELSE rounds[k].lst ]_vars

\* The loop has read a marker of round 2, a blank line and a content line,
\* which went to round 2 (the title was the line "1.")
C10_Witness ==
    /\ pc = "lines"
    /\ j > Len(text)
    /\ text = <<<<"1", DOT>>, <<"2", DOT>>, <<SP>>, <<"X", "Y">>>>
    /\ current_round = 2
    /\ rounds = <<[rn |-> 2, lst |-> <<<<>>, <<"X", "Y">>>>]>>

====
